---- MODULE Spec2Model ----
(***************************************************************************)
(* Model of mcp-server-stalwart: the process start-up (main.rs), the JMAP  *)
(* client (jmap.rs) and the tool router (server.rs).                       *)
(*                                                                         *)
(* Rust Option<T> values are modelled as sets with at most one element:    *)
(* {} is None and {v} is Some(v).  JSON values received from the mail      *)
(* server are records of one shape (Payload); the requests the client      *)
(* builds are records carrying the fields the code writes.                 *)
(***************************************************************************)
EXTENDS Integers, Sequences, FiniteSets, TLC

(***************************************************************************)
(* Bounds of the model.                                                    *)
(***************************************************************************)
\* longest methodResponses array the mail server answers with
MaxResp == 2

(***************************************************************************)
(* Program constants.                                                      *)
(***************************************************************************)
\* server.rs:104  p.limit.unwrap_or(10)
DefaultLimit == 10
\* server.rs:104  .min(50)
LimitCeiling == 50
\* server.rs:103  p.position.unwrap_or(0)
DefaultPosition == 0
\* jmap.rs:157  "maxBodyValueBytes": 65536
MaxBodyValueBytes == 65536

MAIL_CAPABILITY == "urn:ietf:params:jmap:mail"

USING == << "urn:ietf:params:jmap:core",
            "urn:ietf:params:jmap:mail",
            "urn:ietf:params:jmap:submission" >>

EnvVars == {"JMAP_SESSION_URL", "JMAP_USERNAME", "JMAP_PASSWORD"}

(***************************************************************************)
(* JSON values the mail server can answer with.                            *)
(***************************************************************************)
\* an element of a "list" array: m["id"].as_str() and m["role"].as_str()
Item(id, role) == [id |-> id, role |-> role]

\* a response payload: an object that may carry a "list" array
Obj(mark, hasList, list) == [mark |-> mark, hasList |-> hasList, list |-> list]

NoPayload == Obj("none", FALSE, <<>>)

Payloads ==
    { Obj("pA", FALSE, <<>>),
      Obj("pB", FALSE, <<>>),
      Obj("l0", TRUE, <<>>),
      Obj("l1", TRUE, << Item({"mb1"}, {"inbox"}) >>),
      Obj("l2", TRUE, << Item({"mb1"}, {"inbox"}), Item({"mb2"}, {"drafts"}) >>),
      Obj("l3", TRUE, << Item({}, {"drafts"}), Item({"mb2"}, {"drafts"}) >>) }

ErrorPayloads == { Obj("pE", FALSE, <<>>) }

\* one entry of methodResponses: a JSON array of any length (Vec<Value>)
Entries ==
    { <<>>, << "error" >>, << "Method/name" >>, << "Method/name", Obj("pA", FALSE, <<>>) >> }
    \cup { << "error", e, "r0" >> : e \in ErrorPayloads }
    \cup { << "Method/name", p, "r0" >> : p \in Payloads \ { Obj("pA", FALSE, <<>>) } }

RECURSIVE SeqsUpTo(_, _)
SeqsUpTo(S, n) ==
    IF n = 0 THEN { <<>> }
    ELSE LET shorter == SeqsUpTo(S, n - 1)
         IN  shorter \cup { Append(s, x) : s \in { q \in shorter : Len(q) = n - 1 }, x \in S }

\* what the HTTP layer can deliver for one request
HttpReply(net, entries) == [net |-> net, entries |-> entries]

NoReply == HttpReply("none", <<>>)

PostReplies ==
    { HttpReply(n, <<>>) : n \in {"transport", "status", "decode"} }
    \cup { HttpReply("ok", es) : es \in SeqsUpTo(Entries, MaxResp) }

(***************************************************************************)
(* anyhow::Result values.  kind is "ok", "err" or "panic" (an index out of *)
(* bounds on a Vec unwinds the task).                                      *)
(***************************************************************************)
Ok(value, values) ==
    [kind |-> "ok", msg |-> "", detail |-> NoPayload, value |-> value, values |-> values]

\* Ok(String), the result of the two id look-ups
OkString(string) == [kind |-> "ok", string |-> string]

Err(msg, detail) ==
    [kind |-> "err", msg |-> msg, detail |-> detail, value |-> NoPayload, values |-> <<>>]

Panic ==
    [kind |-> "panic", msg |-> "index out of bounds", detail |-> NoPayload,
     value |-> NoPayload, values |-> <<>>]

NoResult ==
    [kind |-> "none", msg |-> "", detail |-> NoPayload, value |-> NoPayload, values |-> <<>>]

(***************************************************************************)
(* jmap.rs: session bootstrap.                                             *)
(***************************************************************************)
ApiUrls == {"https://mail/api-1", "https://mail/api-2"}
AccountIds == {"a1", "a2"}
Capabilities == {MAIL_CAPABILITY, "urn:ietf:params:jmap:submission"}

\* struct Session: apiUrl, accounts (its keys), primaryAccounts
Session(api_url, accounts, primary_accounts) ==
    [api_url |-> api_url, accounts |-> accounts, primary_accounts |-> primary_accounts]

NoSession == Session("", {}, << >>)

Sessions ==
    { Session(u, acc, pa) :
        u \in ApiUrls,
        acc \in SUBSET AccountIds,
        pa \in UNION { [D -> AccountIds] : D \in SUBSET Capabilities } }

\* what the GET of the session URL can deliver
SessionReply(net, session) == [net |-> net, session |-> session]

SessionReplies ==
    { SessionReply(n, NoSession) : n \in {"transport", "status", "decode"} }
    \cup { SessionReply("ok", s) : s \in Sessions }

\* struct JmapClient (the reqwest handle is left out: it holds no field of ours)
JmapClient(api_url, username, password, account_id) ==
    [api_url |-> api_url, username |-> username, password |-> password,
     account_id |-> account_id]

\* HashMap::get(key).cloned()
MapGet(map, key) == IF key \in DOMAIN map THEN { map[key] } ELSE {}

\* Option::unwrap_or
UnwrapOr(opt, default) == IF opt = {} THEN default ELSE CHOOSE v \in opt : TRUE

ConnectOk(c) == [kind |-> "ok", msg |-> "", client |-> {c}]
ConnectErr(msg) == [kind |-> "err", msg |-> msg, client |-> {}]

\* the account id a mutated connect would take: the first key of accounts
AnyAccountOf(session) ==
    IF session.accounts = {} THEN {}
    ELSE { CHOOSE a \in session.accounts : TRUE }

\* jmap.rs:49-53 with the capability lookup replaced by "any account"
connect_resolve_any(session) == AnyAccountOf(session)

\* jmap.rs:49-53: session.primary_accounts.get("urn:ietf:params:jmap:mail")
connect_resolve(session) == MapGet(session.primary_accounts, MAIL_CAPABILITY)

\* JmapClient::connect, after the GET has been answered with `reply`
connect(session_url, username, password, reply) ==
    IF reply.net = "transport" THEN ConnectErr("failed to fetch JMAP session")
    ELSE IF reply.net = "status" THEN ConnectErr("JMAP session auth failed")
    ELSE IF reply.net = "decode" THEN ConnectErr("failed to parse JMAP session")
    ELSE LET session == reply.session
             account_id == connect_resolve(session)
         IN  IF account_id = {} THEN ConnectErr("no primary mail account found")
             ELSE IF ~ (UnwrapOr(account_id, "") \in session.accounts)
                  THEN ConnectErr("account not in session")
             ELSE ConnectOk(JmapClient(session.api_url, username, password,
                                       UnwrapOr(account_id, "")))

(***************************************************************************)
(* jmap.rs: the batched call.                                              *)
(***************************************************************************)
MethodCall(name, args, id) == [name |-> name, args |-> args, id |-> id]

\* the POST of call_multi (lines 74-93): envelope, endpoint and basic auth
JmapRequest(c, calls) ==
    [verb |-> "POST", url |-> c.api_url,
     auth |-> [username |-> c.username, password |-> c.password],
     using |-> USING, methodCalls |-> calls]

NoRequest ==
    [verb |-> "none", url |-> "", auth |-> [username |-> "", password |-> ""],
     using |-> <<>>, methodCalls |-> <<>>]

\* the loop of call_multi (lines 99-107); Rust call[0] is call[1] here
RECURSIVE CollectResults(_, _)
CollectResults(entries, results) ==
    IF entries = <<>> THEN Ok(NoPayload, results)
    ELSE LET call == Head(entries)
         IN  IF Len(call) < 1 THEN Panic
             ELSE IF call[1] = "error"
                  THEN IF Len(call) < 2 THEN Panic
                       ELSE Err("JMAP error", call[2])
             ELSE IF Len(call) < 2 THEN Panic
             ELSE CollectResults(Tail(entries), Append(results, call[2]))

\* JmapClient::call_multi, after the POST has been answered with `reply`
call_multi(reply) ==
    IF reply.net = "transport" THEN Err("error sending request", NoPayload)
    ELSE IF reply.net = "status" THEN Err("HTTP status error", NoPayload)
    ELSE IF reply.net = "decode" THEN Err("error decoding response body", NoPayload)
    ELSE CollectResults(reply.entries, <<>>)

\* a call that would hand back the first payload whatever follows it
call_first_entry(reply) ==
    IF reply.net = "ok" /\ reply.entries # <<>> /\ Len(reply.entries[1]) >= 2
       /\ reply.entries[1][1] # "error"
    THEN Ok(reply.entries[1][2], <<>>)
    ELSE LET results == call_multi(reply)
         IN  IF results.kind # "ok" THEN results
             ELSE Err("empty JMAP response", NoPayload)

\* JmapClient::call, after its POST has been answered with `reply`
call(reply) ==
    LET results == call_multi(reply)
    IN  IF results.kind # "ok" THEN results
        ELSE IF results.values = <<>> THEN Err("empty JMAP response", NoPayload)
        ELSE Ok(results.values[1], <<>>)

(***************************************************************************)
(* jmap.rs: the domain operations, as the method calls they submit.        *)
(***************************************************************************)
MailboxProperties == << "id", "name", "parentId", "role", "totalEmails", "unreadEmails" >>

EmailProperties ==
    << "id", "threadId", "mailboxIds", "from", "to", "cc", "bcc", "subject",
       "receivedAt", "sentAt", "size", "keywords", "preview", "textBody",
       "htmlBody", "bodyValues" >>

DefaultSort == << [property |-> "receivedAt", isAscending |-> FALSE] >>

\* JmapClient::get_mailboxes (lines 110-119)
JmapClient_get_mailboxes(c) ==
    JmapRequest(c, << MethodCall("Mailbox/get",
                                 [accountId |-> c.account_id,
                                  properties |-> MailboxProperties], "r0") >>)

\* JmapClient::search_emails (lines 121-141); sort is an Option
JmapClient_search_emails(c, filter, sort, position, limit) ==
    JmapRequest(c, << MethodCall("Email/query",
                                 [accountId |-> c.account_id,
                                  filter |-> filter,
                                  sort |-> UnwrapOr(sort, DefaultSort),
                                  position |-> position,
                                  limit |-> limit], "r0") >>)

\* JmapClient::get_emails (lines 143-161); the "#ids" key holds an object of
\* three nulls
JmapClient_get_emails(c, ids) ==
    JmapRequest(c, << MethodCall("Email/get",
                                 [accountId |-> c.account_id,
                                  ids |-> ids,
                                  properties |-> EmailProperties,
                                  fetchTextBodyValues |-> TRUE,
                                  fetchHTMLBodyValues |-> TRUE,
                                  maxBodyValueBytes |-> MaxBodyValueBytes]
                                 @@ ("#ids" :> [resultOf |-> "null", name |-> "null",
                                                path |-> "null"]), "r0") >>)

\* the Identity/get call of get_identity_id (line 183)
IdentityRequest(c) ==
    JmapRequest(c, << MethodCall("Identity/get", [accountId |-> c.account_id], "r0") >>)

\* result["list"].as_array(): None when there is no "list" array
ListOf(value) == IF value.hasList THEN { value.list } ELSE {}

\* list.iter().find(pred): the first element satisfying pred
RECURSIVE FindRole(_, _)
FindRole(list, role) ==
    IF list = <<>> THEN {}
    ELSE IF Head(list).role = {role} THEN { Head(list) }
    ELSE FindRole(Tail(list), role)

\* a lookup that takes the first mailbox listed, whatever its role
get_first_mailbox_id(result) ==
    IF result.kind # "ok" THEN result
    ELSE LET list == ListOf(result.value)
             first == IF list = {} \/ UnwrapOr(list, <<>>) = <<>> THEN {}
                      ELSE { Head(UnwrapOr(list, <<>>)) }
             id == IF first = {} THEN {} ELSE UnwrapOr(first, Item({}, {})).id
         IN  IF id = {} THEN Err("no drafts mailbox found", NoPayload)
             ELSE OkString(UnwrapOr(id, ""))

\* get_drafts_mailbox_id (lines 172-179), applied to the Mailbox/get result
get_drafts_mailbox_id(result) ==
    IF result.kind # "ok" THEN result
    ELSE LET found == IF ListOf(result.value) = {} THEN {}
                      ELSE FindRole(UnwrapOr(ListOf(result.value), <<>>), "drafts")
             id == IF found = {} THEN {} ELSE UnwrapOr(found, Item({}, {})).id
         IN  IF id = {} THEN Err("no drafts mailbox found", NoPayload)
             ELSE OkString(UnwrapOr(id, ""))

\* get_identity_id (lines 184-189), applied to the Identity/get result
get_identity_id(result) ==
    IF result.kind # "ok" THEN result
    ELSE LET list == ListOf(result.value)
             first == IF list = {} \/ UnwrapOr(list, <<>>) = <<>> THEN {}
                      ELSE { Head(UnwrapOr(list, <<>>)) }
             id == IF first = {} THEN {} ELSE UnwrapOr(first, Item({}, {})).id
         IN  IF id = {} THEN Err("no identity found for this account", NoPayload)
             ELSE OkString(UnwrapOr(id, ""))

\* a.iter().map(|a| json!({"email": a})).collect()
RECURSIVE Addrs(_)
Addrs(list) ==
    IF list = <<>> THEN <<>>
    ELSE << [email |-> Head(list)] >> \o Addrs(Tail(list))

\* a draft that always carries cc and bcc, empty or not
DraftEmailAlways(from, to, subject, body, cc, bcc, drafts_id) ==
    [ from |-> << [email |-> from] >>,
      to |-> Addrs(to),
      subject |-> subject,
      bodyValues |-> [body |-> [value |-> body, charset |-> "utf-8"]],
      textBody |-> << [partId |-> "body", type |-> "text/plain"] >>,
      mailboxIds |-> { drafts_id },
      cc |-> Addrs(cc),
      bcc |-> Addrs(bcc) ]

\* the draft object of send_email (lines 203-228); a JSON object is a
\* function whose domain is the set of keys present
DraftEmail(from, to, subject, body, cc, bcc, drafts_id) ==
    LET email == [ from |-> << [email |-> from] >>,
                   to |-> Addrs(to),
                   subject |-> subject,
                   bodyValues |-> [body |-> [value |-> body, charset |-> "utf-8"]],
                   textBody |-> << [partId |-> "body", type |-> "text/plain"] >>,
                   mailboxIds |-> { drafts_id } ]
        with_cc == IF Addrs(cc) # <<>> THEN [cc |-> Addrs(cc)] @@ email ELSE email
    IN  IF Addrs(bcc) # <<>> THEN [bcc |-> Addrs(bcc)] @@ with_cc ELSE with_cc

\* a send that submits before it creates the draft
SendBatchSubmissionFirst(c, email, identity_id) ==
    JmapRequest(c,
        << MethodCall("EmailSubmission/set",
                      [accountId |-> c.account_id,
                       create |-> [send |-> [emailId |-> "#draft",
                                             identityId |-> identity_id]],
                       onSuccessDestroyEmail |-> << "#send" >>], "r1"),
           MethodCall("Email/set",
                      [accountId |-> c.account_id, create |-> [draft |-> email]], "r0") >>)

\* the batch of send_email (lines 230-255)
SendBatch(c, email, identity_id) ==
    JmapRequest(c,
        << MethodCall("Email/set",
                      [accountId |-> c.account_id, create |-> [draft |-> email]], "r0"),
           MethodCall("EmailSubmission/set",
                      [accountId |-> c.account_id,
                       create |-> [send |-> [emailId |-> "#draft",
                                             identityId |-> identity_id]],
                       onSuccessDestroyEmail |-> << "#send" >>], "r1") >>)

\* a send that hands back the first batch result
send_email_first(reply) ==
    LET results == call_multi(reply)
    IN  IF results.kind # "ok" THEN results
        ELSE IF results.values = <<>> THEN Err("no submission response", NoPayload)
        ELSE Ok(results.values[1], <<>>)

\* the end of send_email (lines 255-258), after the batch has been answered
send_email_result(reply) ==
    LET results == call_multi(reply)
    IN  IF results.kind # "ok" THEN results
        ELSE IF results.values = <<>> THEN Err("no submission response", NoPayload)
        ELSE Ok(results.values[Len(results.values)], <<>>)

(***************************************************************************)
(* server.rs: the tool router.                                             *)
(***************************************************************************)
\* struct SearchParams
SearchParams(query, from, to, subject, mailbox_id, position, limit) ==
    [query |-> query, from |-> from, to |-> to, subject |-> subject,
     mailbox_id |-> mailbox_id, position |-> position, limit |-> limit]

\* if let Some(v) = &field { conditions.push(json!({key: v})) }
PushIfSome(conditions, key, field) ==
    IF field = {} THEN conditions
    ELSE Append(conditions, [key |-> key, value |-> UnwrapOr(field, "")])

\* server.rs:77-93
Conditions(p) ==
    LET c1 == PushIfSome(<<>>, "text", p.query)
        c2 == PushIfSome(c1, "from", p.from)
        c3 == PushIfSome(c2, "to", p.to)
        c4 == PushIfSome(c3, "subject", p.subject)
    IN  PushIfSome(c4, "inMailbox", p.mailbox_id)

\* the three JSON shapes of a filter: {} has no key, a bare condition is the
\* condition itself, a composite has "operator" and "conditions"
EmptyFilter == [condition |-> {}, operator |-> {}, conditions |-> <<>>]
BareFilter(c) == [condition |-> {c}, operator |-> {}, conditions |-> <<>>]
AndFilter(cs) == [condition |-> {}, operator |-> {"AND"}, conditions |-> cs]

\* a builder without the single-condition case
BuildFilterAlwaysAnd(conditions) ==
    IF conditions = <<>> THEN EmptyFilter ELSE AndFilter(conditions)

\* server.rs:95-101
BuildFilter(conditions) ==
    IF Len(conditions) = 1 THEN BareFilter(conditions[1])
    ELSE IF conditions = <<>> THEN EmptyFilter
    ELSE AndFilter(conditions)

Min(a, b) == IF a <= b THEN a ELSE b

\* a limit passed through without the ceiling
EffectiveLimitUnclamped(limit) == UnwrapOr(limit, DefaultLimit)

\* server.rs:104  p.limit.unwrap_or(10).min(50)
EffectiveLimit(limit) == Min(UnwrapOr(limit, DefaultLimit), LimitCeiling)

\* server.rs:103  p.position.unwrap_or(0)
EffectivePosition(position) == UnwrapOr(position, DefaultPosition)

\* what a tool handler gives back to the host: Ok(CallToolResult::success),
\* Ok(CallToolResult::error), Err(McpError), or an unwinding panic
ToolSuccess(text) ==
    [kind |-> "success", is_error |-> FALSE, msg |-> "", detail |-> NoPayload, text |-> text]
NoText == [pretty_json |-> NoPayload]
ToolError(msg, detail) ==
    [kind |-> "error", is_error |-> TRUE, msg |-> msg, detail |-> detail, text |-> NoText]
McpError(msg) ==
    [kind |-> "mcp_error", is_error |-> TRUE, msg |-> msg, detail |-> NoPayload,
     text |-> NoText]
ToolPanic ==
    [kind |-> "panic", is_error |-> TRUE, msg |-> "index out of bounds",
     detail |-> NoPayload, text |-> NoText]
NoOutcome ==
    [kind |-> "none", is_error |-> FALSE, msg |-> "", detail |-> NoPayload,
     text |-> NoText]

\* serde_json::to_string_pretty(&result).unwrap_or_default(): the text of a
\* Value, which always serialises
to_string_pretty(value) == [pretty_json |-> value]

\* the match at the end of each tool handler (server.rs:62-68, 106-112,
\* 124-130); a panic raised below the match is not an Err and unwinds past it
Render(result) ==
    IF result.kind = "ok" THEN ToolSuccess(to_string_pretty(result.value))
    ELSE IF result.kind = "err" THEN ToolError(result.msg, result.detail)
    ELSE ToolPanic

(***************************************************************************)
(* The inputs the environment supplies.                                    *)
(***************************************************************************)
\* the value each environment variable has when it is set
EnvValue(v) ==
    IF v = "JMAP_SESSION_URL" THEN "https://mail/.well-known/jmap"
    ELSE IF v = "JMAP_USERNAME" THEN "user" ELSE "secret"

Opt(v) == { {}, {v} }

SearchInputs ==
    { SearchParams(q, f, t, s, m, pos, lim) :
        q \in Opt("budget"), f \in Opt("alice@x"), t \in Opt("bob@x"),
        s \in Opt("hello"), m \in Opt("mb1"),
        pos \in { {}, {7} },
        lim \in { {}, {0}, {10}, {50}, {51}, {1000} } }

IdsInputs == { <<>>, << "e1" >>, << "e1", "e2" >> }

\* the arguments of send_email
SendParams(from, to, subject, body, cc, bcc) ==
    [from |-> from, to |-> to, subject |-> subject, body |-> body, cc |-> cc, bcc |-> bcc]

SendInputs ==
    { SendParams("me@x", << "bob@x" >>, "hello", "text", cc, bcc) :
        cc \in { <<>>, << "c1@x" >> },
        bcc \in { <<>>, << "b1@x" >>, << "b1@x", "b2@x" >> } }

\* the concurrent invocations the host keeps open
Tasks == { "t1" }

NoParams == [none |-> TRUE]

\* an invocation: the tool or client method running, where it is suspended,
\* its arguments, the request it awaits, the last reply it was given, the id
\* send_email has resolved, the number of requests it has sent, the client's
\* Result and what the host is given.  The arguments are kept while the
\* handler is suspended, and on the early return of get_emails.
Idle ==
    [op |-> "none", pc |-> "idle", step |-> "", params |-> NoParams,
     request |-> NoRequest, reply |-> NoReply, identity_id |-> {}, sent |-> 0,
     result |-> NoResult, outcome |-> NoOutcome]

(***************************************************************************)
(* State.                                                                  *)
(***************************************************************************)
VARIABLES
    pc,         \* where main is: start, connecting, serve_init, serving, exited
    env,        \* the environment: each variable unset ({}) or set ({value})
    exit,       \* how main ended: "" while running, else "ok" or the error
    session,    \* the reply to the session GET, while connect's result is fresh
    client,     \* the JmapClient main holds: {} or {client}
    dispatched, \* whether the host has dispatched an operation in this run
    tasks       \* the invocations

vars == << pc, env, exit, session, client, dispatched, tasks >>

NoSessionReply == SessionReply("none", NoSession)

Init ==
    /\ pc = "start"
    /\ env \in { [v \in EnvVars |-> IF v \in S THEN { EnvValue(v) } ELSE {}] :
                  S \in SUBSET EnvVars }
    /\ exit = ""
    /\ session = NoSessionReply
    /\ client = {}
    /\ dispatched = FALSE
    /\ tasks = [t \in Tasks |-> Idle]

(***************************************************************************)
(* main.rs.                                                                *)
(***************************************************************************)
\* the message of the first `?` of lines 12-15 that fails
MissingConfig ==
    IF env["JMAP_SESSION_URL"] = {} THEN "JMAP_SESSION_URL is required"
    ELSE IF env["JMAP_USERNAME"] = {} THEN "JMAP_USERNAME is required"
    ELSE IF env["JMAP_PASSWORD"] = {} THEN "JMAP_PASSWORD is required"
    ELSE ""

\* a start-up that goes on to connect whatever is missing
ConfigCompleteAlways == TRUE

\* lines 12-15 all returned Ok
ConfigComplete == MissingConfig = ""

\* main, lines 12-17, up to the await of the session GET (jmap.rs:37-41)
main_start ==
    /\ pc = "start"
    /\ IF ConfigComplete
       THEN pc' = "connecting" /\ exit' = exit
       ELSE pc' = "exited" /\ exit' = MissingConfig
    /\ UNCHANGED << env, session, client, dispatched, tasks >>

\* a start-up that serves whether or not connect returned a client
StartServerAlways(connected) == TRUE

\* main, line 17: the `?` lets main go on only with Ok(client)
StartServer(connected) == connected.kind = "ok"

\* main, lines 17-19: connect returns, then StalwartServer::new and the
\* await of serve(stdio())
main_connected(reply) ==
    /\ pc = "connecting"
    /\ LET connected == connect(UnwrapOr(env["JMAP_SESSION_URL"], ""),
                                UnwrapOr(env["JMAP_USERNAME"], ""),
                                UnwrapOr(env["JMAP_PASSWORD"], ""), reply)
       IN  /\ session' = reply
           /\ client' = connected.client
           /\ IF StartServer(connected)
              THEN pc' = "serve_init" /\ exit' = exit
              ELSE pc' = "exited" /\ exit' = connected.msg
    /\ UNCHANGED << env, dispatched, tasks >>

\* main, line 19: the serve handshake ends; the session is gone by now
main_serve(ok) ==
    /\ pc = "serve_init"
    /\ IF ok THEN pc' = "serving" /\ exit' = exit
       ELSE pc' = "exited" /\ exit' = "serve failed"
    /\ session' = NoSessionReply
    /\ UNCHANGED << env, client, dispatched, tasks >>

\* main, lines 20-21: service.waiting() returns and the runtime drops the
\* invocations still open
main_waiting(ok) ==
    /\ pc = "serving"
    /\ pc' = "exited"
    /\ exit' = IF ok THEN "ok" ELSE "service failed"
    /\ tasks' = [t \in DOMAIN tasks |-> Idle]
    /\ UNCHANGED << env, session, client, dispatched >>

(***************************************************************************)
(* server.rs and jmap.rs: one invocation, from dispatch to the first await *)
(* and from each reply to the next await or the return.                    *)
(***************************************************************************)
TheClient == UnwrapOr(client, JmapClient("", "", "", ""))

\* the host can dispatch to slot t: the service runs and the slot is free
CanDispatch(t) ==
    /\ pc = "serving"
    /\ client # {}
    /\ tasks[t].pc = "idle"

\* the invocation suspends in call_multi's send().await with `request` out
Await(t, op, step, params, request) ==
    /\ tasks' = [tasks EXCEPT ![t] =
                    [Idle EXCEPT !.op = op, !.pc = "await", !.step = step,
                                 !.params = params, !.request = request,
                                 !.sent = 1]]
    /\ dispatched' = TRUE

\* StalwartServer::get_mailboxes, to the await in call_multi
StalwartServer_get_mailboxes(t) ==
    /\ CanDispatch(t)
    /\ Await(t, "get_mailboxes", "call", NoParams, JmapClient_get_mailboxes(TheClient))
    /\ UNCHANGED << pc, env, exit, session, client >>

\* StalwartServer::search_emails, to the await in call_multi
StalwartServer_search_emails(t, p) ==
    /\ CanDispatch(t)
    /\ LET filter == BuildFilter(Conditions(p))
           position == EffectivePosition(p.position)
           limit == EffectiveLimit(p.limit)
       IN  Await(t, "search_emails", "call", p,
                 JmapClient_search_emails(TheClient, filter, {}, position, limit))
    /\ UNCHANGED << pc, env, exit, session, client >>

\* a fetch that sends the request whatever ids holds
IdsRejectedNever(ids) == FALSE

\* server.rs:121  p.ids.is_empty()
IdsRejected(ids) == ids = <<>>

\* StalwartServer::get_emails, to its early return or the await in call_multi
StalwartServer_get_emails(t, ids) ==
    /\ CanDispatch(t)
    /\ IF IdsRejected(ids)
       THEN /\ tasks' = [tasks EXCEPT ![t] =
                            [Idle EXCEPT !.op = "get_emails", !.pc = "done",
                                         !.params = [ids |-> ids],
                                         !.outcome = McpError("ids must not be empty")]]
            /\ dispatched' = TRUE
       ELSE Await(t, "get_emails", "call", [ids |-> ids],
                  JmapClient_get_emails(TheClient, ids))
    /\ UNCHANGED << pc, env, exit, session, client >>

\* a reply that every suspended tool handler takes for its own
tool_reply_shared(t, reply) ==
    /\ pc = "serving"
    /\ tasks[t].pc = "await"
    /\ tasks[t].op \in { "get_mailboxes", "search_emails", "get_emails" }
    /\ LET result == call(reply)
       IN  tasks' = [u \in DOMAIN tasks |->
                        IF /\ tasks[u].pc = "await"
                           /\ tasks[u].op \in { "get_mailboxes", "search_emails", "get_emails" }
                        THEN [tasks[u] EXCEPT !.pc = "done", !.step = "",
                                              !.params = NoParams,
                                              !.request = NoRequest, !.reply = reply,
                                              !.result = result, !.outcome = Render(result)]
                        ELSE tasks[u]]
    /\ UNCHANGED << pc, env, exit, session, client, dispatched >>

\* a tool handler resumes with the reply to its POST and returns
tool_reply(t, reply) ==
    /\ pc = "serving"
    /\ tasks[t].pc = "await"
    /\ tasks[t].op \in { "get_mailboxes", "search_emails", "get_emails" }
    /\ LET result == call(reply)
       IN  tasks' = [tasks EXCEPT ![t].pc = "done", ![t].step = "",
                                  ![t].params = NoParams,
                                  ![t].request = NoRequest, ![t].reply = reply,
                                  ![t].result = result, ![t].outcome = Render(result)]
    /\ UNCHANGED << pc, env, exit, session, client, dispatched >>

\* JmapClient::send_email, to the await of Identity/get (line 201)
send_email(t, p) ==
    /\ CanDispatch(t)
    /\ Await(t, "send_email", "identity", p, IdentityRequest(TheClient))
    /\ UNCHANGED << pc, env, exit, session, client >>

\* send_email returns: an Err of a `?`, a panic, or its last line
SendReturns(t, reply, result) ==
    tasks' = [tasks EXCEPT ![t].pc = "done", ![t].step = "", ![t].params = NoParams,
                           ![t].request = NoRequest, ![t].reply = reply,
                           ![t].identity_id = {}, ![t].result = result]

\* a send that issues each later request twice
SendAwaitsTwice(t, reply, step, identity_id, request) ==
    tasks' = [tasks EXCEPT ![t].step = step, ![t].request = request,
                           ![t].reply = reply, ![t].identity_id = identity_id,
                           ![t].sent = @ + 2]

\* send_email suspends again with the next request out
SendAwaits(t, reply, step, identity_id, request) ==
    tasks' = [tasks EXCEPT ![t].step = step, ![t].request = request,
                           ![t].reply = reply, ![t].identity_id = identity_id,
                           ![t].sent = @ + 1]

\* send_email, lines 201-207: Identity/get is answered; on an id the three
\* address lists are built and Mailbox/get is sent
send_identity_reply(t, reply) ==
    /\ pc = "serving"
    /\ tasks[t].pc = "await" /\ tasks[t].op = "send_email"
    /\ tasks[t].step = "identity"
    /\ LET identity_id == get_identity_id(call(reply))
       IN  IF identity_id.kind # "ok"
           THEN SendReturns(t, reply, identity_id)
           ELSE SendAwaits(t, reply, "mailbox", { identity_id.string },
                           JmapClient_get_mailboxes(TheClient))
    /\ UNCHANGED << pc, env, exit, session, client, dispatched >>

\* send_email, lines 207-255: Mailbox/get is answered; on a drafts id the
\* draft is built and the batch is sent
send_mailbox_reply(t, reply) ==
    /\ pc = "serving"
    /\ tasks[t].pc = "await" /\ tasks[t].op = "send_email"
    /\ tasks[t].step = "mailbox"
    /\ LET drafts_id == get_drafts_mailbox_id(call(reply))
           p == tasks[t].params
       IN  IF drafts_id.kind # "ok"
           THEN SendReturns(t, reply, drafts_id)
           ELSE SendAwaits(t, reply, "batch", tasks[t].identity_id,
                    SendBatch(TheClient,
                              DraftEmail(p.from, p.to, p.subject, p.body,
                                         p.cc, p.bcc, drafts_id.string),
                              UnwrapOr(tasks[t].identity_id, "")))
    /\ UNCHANGED << pc, env, exit, session, client, dispatched >>

\* send_email, lines 255-258: the batch is answered
send_batch_reply(t, reply) ==
    /\ pc = "serving"
    /\ tasks[t].pc = "await" /\ tasks[t].op = "send_email"
    /\ tasks[t].step = "batch"
    /\ SendReturns(t, reply, send_email_result(reply))
    /\ UNCHANGED << pc, env, exit, session, client, dispatched >>

\* the host has taken the outcome of a finished invocation
host_return(t) ==
    /\ pc = "serving"
    /\ tasks[t].pc = "done"
    /\ tasks' = [tasks EXCEPT ![t] = Idle]
    /\ UNCHANGED << pc, env, exit, session, client, dispatched >>

Next ==
    \/ main_start
    \/ \E reply \in SessionReplies : main_connected(reply)
    \/ \E ok \in BOOLEAN : main_serve(ok)
    \/ \E ok \in BOOLEAN : main_waiting(ok)
    \/ \E t \in Tasks : StalwartServer_get_mailboxes(t)
    \/ \E t \in Tasks, p \in SearchInputs : StalwartServer_search_emails(t, p)
    \/ \E t \in Tasks, ids \in IdsInputs : StalwartServer_get_emails(t, ids)
    \/ \E t \in Tasks, p \in SendInputs : send_email(t, p)
    \/ \E t \in Tasks, reply \in PostReplies : tool_reply(t, reply)
    \/ \E t \in Tasks, reply \in PostReplies : send_identity_reply(t, reply)
    \/ \E t \in Tasks, reply \in PostReplies : send_mailbox_reply(t, reply)
    \/ \E t \in Tasks, reply \in PostReplies : send_batch_reply(t, reply)
    \/ \E t \in Tasks : host_return(t)

Spec == Init /\ [][Next]_vars

(***************************************************************************)
(* Two invocations open at once.  The server is cloned per connection and  *)
(* shares one Arc<JmapClient>; tokio interleaves the handlers at their     *)
(* awaits.  The inputs and replies are a few of those of Spec.             *)
(***************************************************************************)
ConcTasks == { "t1", "t2" }

ConcSearchInputs ==
    { SearchParams({}, {}, {}, {}, {}, {}, {}),
      SearchParams({"budget"}, {}, {}, {}, {"mb1"}, {7}, {51}) }

ConcIdsInputs == { <<>>, << "e1" >> }

ConcSendInputs == { SendParams("me@x", << "bob@x" >>, "hello", "text", <<>>, << "b1@x" >>) }

ConcReplies ==
    { HttpReply("transport", <<>>),
      HttpReply("ok", << << "error", Obj("pE", FALSE, <<>>), "r0" >> >>),
      HttpReply("ok", << << "Method/name", Obj("pB", FALSE, <<>>), "r0" >> >>),
      HttpReply("ok", << << "Method/name",
                            Obj("l2", TRUE, << Item({"mb1"}, {"inbox"}),
                                               Item({"mb2"}, {"drafts"}) >>), "r0" >> >>),
      HttpReply("ok", << << "Method/name",
                            Obj("l2", TRUE, << Item({"mb1"}, {"inbox"}),
                                               Item({"mb2"}, {"drafts"}) >>), "r0" >>,
                         << "Method/name", Obj("pB", FALSE, <<>>), "r0" >> >>) }

InitConc ==
    /\ pc = "start"
    /\ env \in { [v \in EnvVars |-> IF v \in S THEN { EnvValue(v) } ELSE {}] :
                  S \in SUBSET EnvVars }
    /\ exit = ""
    /\ session = NoSessionReply
    /\ client = {}
    /\ dispatched = FALSE
    /\ tasks = [t \in ConcTasks |-> Idle]

NextConc ==
    \/ main_start
    \/ \E reply \in SessionReplies : main_connected(reply)
    \/ \E ok \in BOOLEAN : main_serve(ok)
    \/ \E ok \in BOOLEAN : main_waiting(ok)
    \/ \E t \in ConcTasks : StalwartServer_get_mailboxes(t)
    \/ \E t \in ConcTasks, p \in ConcSearchInputs : StalwartServer_search_emails(t, p)
    \/ \E t \in ConcTasks, ids \in ConcIdsInputs : StalwartServer_get_emails(t, ids)
    \/ \E t \in ConcTasks, p \in ConcSendInputs : send_email(t, p)
    \/ \E t \in ConcTasks, reply \in ConcReplies : tool_reply(t, reply)
    \/ \E t \in ConcTasks, reply \in ConcReplies : send_identity_reply(t, reply)
    \/ \E t \in ConcTasks, reply \in ConcReplies : send_mailbox_reply(t, reply)
    \/ \E t \in ConcTasks, reply \in ConcReplies : send_batch_reply(t, reply)
    \/ \E t \in ConcTasks : host_return(t)

SpecConc == InitConc /\ [][NextConc]_vars

(***************************************************************************)
(* Vocabulary of the properties.                                           *)
(***************************************************************************)
RouterOps == { "get_mailboxes", "search_emails", "get_emails" }

\* the entry carries the tag "error" as its first element
ErrorTagged(entry) == Len(entry) >= 1 /\ entry[1] = "error"

\* the entry has a tag and a payload
HasPayload(entry) == Len(entry) >= 2

\* the HTTP exchange succeeded and some entry of the reply is error-tagged
HasErrorEntry(reply) ==
    /\ reply.net = "ok"
    /\ \E i \in 1..Len(reply.entries) : ErrorTagged(reply.entries[i])

\* every entry of the reply has a tag and a payload
WellFormed(reply) ==
    \A i \in 1..Len(reply.entries) : HasPayload(reply.entries[i])

\* invocation t has returned from the reply it was last given
Answered(t) == tasks[t].pc = "done" /\ tasks[t].reply.net # "none"

\* a router invocation has returned after its call was answered
RouterAnswered(t) == Answered(t) /\ tasks[t].op \in RouterOps

\* a send has returned after its batch (its third request) was answered
BatchAnswered(t) == Answered(t) /\ tasks[t].op = "send_email" /\ tasks[t].sent = 3

(***************************************************************************)
(* C1.  invoke_batch is all-or-nothing: whenever the reply to a batch      *)
(* holds an error-tagged entry, at any position, the call fails with the   *)
(* remote method error and no payload is returned.                         *)
(* The code does not satisfy this: an entry with fewer than two elements,  *)
(* before the error-tagged one or the error-tagged one itself, makes       *)
(* call_multi panic on call[0] or call[1] instead of failing.              *)
(***************************************************************************)
C1_BatchAllOrNothing ==
    \A t \in Tasks :
        Answered(t) /\ HasErrorEntry(tasks[t].reply)
        => /\ tasks[t].result.kind = "err"
           /\ tasks[t].result.msg = "JMAP error"
           /\ tasks[t].result.value = NoPayload
           /\ tasks[t].result.values = <<>>

\* what does hold of the code: an error-tagged entry never yields a payload,
\* and among entries that all carry a payload it is the remote method error
C1_NoPartialSuccess ==
    \A t \in Tasks :
        Answered(t) /\ HasErrorEntry(tasks[t].reply)
        => /\ tasks[t].result.kind \in { "err", "panic" }
           /\ tasks[t].result.value = NoPayload
           /\ tasks[t].result.values = <<>>
           /\ WellFormed(tasks[t].reply)
              => tasks[t].result.kind = "err" /\ tasks[t].result.msg = "JMAP error"

(***************************************************************************)
(* C2.  When the batch of a send is answered with exactly two entries      *)
(* [r0, r1], each with a payload and neither error-tagged, send returns    *)
(* the payload of r1.                                                      *)
(***************************************************************************)
TwoResults(reply) ==
    /\ reply.net = "ok"
    /\ Len(reply.entries) = 2
    /\ \A i \in 1..2 : HasPayload(reply.entries[i]) /\ ~ ErrorTagged(reply.entries[i])

C2_SendReturnsSubmission ==
    \A t \in Tasks :
        BatchAnswered(t) /\ TwoResults(tasks[t].reply)
        => /\ tasks[t].result.kind = "ok"
           /\ tasks[t].result.value = tasks[t].reply.entries[2][2]

C2_Witness ==
    \E t \in Tasks :
        /\ BatchAnswered(t) /\ TwoResults(tasks[t].reply)
        /\ tasks[t].reply.entries[1][2] # tasks[t].reply.entries[2][2]
        /\ tasks[t].result.value = tasks[t].reply.entries[2][2]

(***************************************************************************)
(* C3.  Every router operation that reached the mail server ends with a    *)
(* success payload or an error payload, whatever the server answered.      *)
(* The code does not satisfy this: a reply entry with fewer than two       *)
(* elements makes call_multi panic, and the panic unwinds through the tool *)
(* handler.                                                                *)
(***************************************************************************)
C3_RouterNeverFaults ==
    \A t \in Tasks :
        RouterAnswered(t) => tasks[t].outcome.kind \in { "success", "error" }

(***************************************************************************)
(* C4.  get_emails with an empty ids list returns the validation error     *)
(* and has sent no request.                                                *)
(***************************************************************************)
EmptyIdsCall(t) == tasks[t].op = "get_emails" /\ tasks[t].params = [ids |-> <<>>]

C4_EmptyIdsNoRequest ==
    \A t \in Tasks :
        EmptyIdsCall(t)
        => /\ tasks[t].pc = "done"
           /\ tasks[t].sent = 0
           /\ tasks[t].request.verb = "none"
           /\ tasks[t].reply.net = "none"
           /\ tasks[t].outcome.kind = "mcp_error"
           /\ tasks[t].outcome.msg = "ids must not be empty"

C4_Witness ==
    \E t \in Tasks : EmptyIdsCall(t) /\ tasks[t].pc = "done" /\ tasks[t].sent = 0

(***************************************************************************)
(* C5.  connect yields a client only for a session whose primaryAccounts   *)
(* maps the mail capability to a key of accounts; without a primary mail   *)
(* account it fails with the no-mail-account error, with an id missing     *)
(* from accounts with the consistency error, and no client exists; a       *)
(* client carries that primary id and the advertised apiUrl.               *)
(***************************************************************************)
SessionAnswered == session.net = "ok"

HasPrimaryMail == MAIL_CAPABILITY \in DOMAIN session.session.primary_accounts

PrimaryMail == session.session.primary_accounts[MAIL_CAPABILITY]

C5_ConnectResolvesPrimary ==
    /\ SessionAnswered /\ ~ HasPrimaryMail
       => client = {} /\ pc = "exited" /\ exit = "no primary mail account found"
    /\ SessionAnswered /\ HasPrimaryMail /\ PrimaryMail \notin session.session.accounts
       => client = {} /\ pc = "exited" /\ exit = "account not in session"
    /\ session.net \in { "transport", "status", "decode" } => client = {}
    /\ SessionAnswered /\ HasPrimaryMail /\ PrimaryMail \in session.session.accounts
       => /\ client # {}
          /\ \A c \in client : /\ c.account_id = PrimaryMail
                               /\ c.api_url = session.session.api_url
    /\ client # {} /\ session.net # "none"
       => SessionAnswered /\ HasPrimaryMail /\ PrimaryMail \in session.session.accounts

C5_Witness ==
    /\ SessionAnswered /\ HasPrimaryMail
    /\ session.session.accounts = AccountIds
    /\ \E c \in client : c.account_id = PrimaryMail /\ c.account_id = "a2"

(***************************************************************************)
(* C6.  The filter sent by search is the empty object when no field is     *)
(* supplied, the bare condition when exactly one is, and an AND composite  *)
(* with exactly one condition per supplied field when two or more are; an  *)
(* AND composite with fewer than two conditions is never sent.             *)
(***************************************************************************)
\* a search invocation whose request is out
SearchAwaiting(t) == tasks[t].op = "search_emails" /\ tasks[t].pc = "await"

\* the filter of the Email/query call that is out
SentFilter(t) == tasks[t].request.methodCalls[1].args.filter

\* one condition per supplied field
SuppliedConditions(p) ==
    { [key |-> "text", value |-> v] : v \in p.query }
    \cup { [key |-> "from", value |-> v] : v \in p.from }
    \cup { [key |-> "to", value |-> v] : v \in p.to }
    \cup { [key |-> "subject", value |-> v] : v \in p.subject }
    \cup { [key |-> "inMailbox", value |-> v] : v \in p.mailbox_id }

Range(seq) == { seq[i] : i \in 1..Len(seq) }

C6_FilterShape ==
    \A t \in Tasks :
        SearchAwaiting(t)
        => LET supplied == SuppliedConditions(tasks[t].params)
               n == Cardinality(supplied)
               filter == SentFilter(t)
           IN  /\ n = 0 => filter = [condition |-> {}, operator |-> {}, conditions |-> <<>>]
               /\ n = 1 => /\ filter.condition = supplied
                           /\ filter.operator = {}
                           /\ filter.conditions = <<>>
               /\ n >= 2 => /\ filter.operator = { "AND" }
                            /\ filter.condition = {}
                            /\ Len(filter.conditions) = n
                            /\ Range(filter.conditions) = supplied
               /\ filter.operator # {} => Len(filter.conditions) >= 2

C6_Witness ==
    \E t \in Tasks :
        /\ SearchAwaiting(t)
        /\ tasks[t].params.from # {}
        /\ Cardinality(SuppliedConditions(tasks[t].params)) = 1
        /\ SentFilter(t).condition = { [key |-> "from", value |-> "alice@x"] }
        /\ SentFilter(t).operator = {}

(***************************************************************************)
(* C7.  search never rejects a limit and never sends one above 50: the     *)
(* limit sent is min(requested, 50), 10 when none is supplied, and the     *)
(* position sent is the supplied one, or 0.                                *)
(***************************************************************************)
SentArgs(t) == tasks[t].request.methodCalls[1].args

\* limits 0, 10, 50, 51, 1000 give 0, 10, 50, 50, 50
LimitTable == (0 :> 0) @@ (10 :> 10) @@ (50 :> 50) @@ (51 :> 50) @@ (1000 :> 50)

C7_LimitClamped ==
    \A t \in Tasks :
        /\ tasks[t].op = "search_emails" => tasks[t].sent = 1
        /\ SearchAwaiting(t)
           => LET p == tasks[t].params
              IN  /\ tasks[t].request.verb = "POST"
                  /\ SentArgs(t).limit <= 50
                  /\ \A l \in p.limit :
                        /\ SentArgs(t).limit = (IF l <= 50 THEN l ELSE 50)
                        /\ l \in DOMAIN LimitTable => SentArgs(t).limit = LimitTable[l]
                  /\ p.limit = {} => SentArgs(t).limit = 10
                  /\ \A q \in p.position : SentArgs(t).position = q
                  /\ p.position = {} => SentArgs(t).position = 0

C7_Witness ==
    \E t \in Tasks :
        /\ SearchAwaiting(t)
        /\ tasks[t].params.limit = { 1000 }
        /\ tasks[t].params.position = { 7 }
        /\ SentArgs(t).limit = 50
        /\ SentArgs(t).position = 7

(***************************************************************************)
(* C8.  The draft of a send has a cc field exactly when the cc list is     *)
(* non-empty and a bcc field exactly when the bcc list is non-empty; a     *)
(* field that is present holds one address object per recipient.           *)
(***************************************************************************)
\* a send whose batch is out
BatchAwaiting(t) ==
    tasks[t].op = "send_email" /\ tasks[t].pc = "await" /\ tasks[t].step = "batch"

\* the draft of the Email/set call that is out
SentDraft(t) == tasks[t].request.methodCalls[1].args.create.draft

C8_CcBccOmittedWhenEmpty ==
    \A t \in Tasks :
        BatchAwaiting(t)
        => LET p == tasks[t].params
               draft == SentDraft(t)
           IN  /\ "cc" \in DOMAIN draft <=> p.cc # <<>>
               /\ "bcc" \in DOMAIN draft <=> p.bcc # <<>>
               /\ "cc" \in DOMAIN draft
                  => /\ Len(draft.cc) = Len(p.cc)
                     /\ \A i \in 1..Len(p.cc) : draft.cc[i] = [email |-> p.cc[i]]
               /\ "bcc" \in DOMAIN draft
                  => /\ Len(draft.bcc) = Len(p.bcc)
                     /\ \A i \in 1..Len(p.bcc) : draft.bcc[i] = [email |-> p.bcc[i]]

C8_Witness ==
    \E t \in Tasks :
        /\ BatchAwaiting(t)
        /\ tasks[t].params.cc = <<>>
        /\ tasks[t].params.bcc # <<>>
        /\ "bcc" \in DOMAIN SentDraft(t)
        /\ "cc" \notin DOMAIN SentDraft(t)

(***************************************************************************)
(* C9.  invoke_single (call), as the router operations show its result.    *)
(*                                                                         *)
(* As claimed: it fails with the empty-response error when the reply has   *)
(* no entry, and otherwise, the first entry not being error-tagged,        *)
(* returns the payload of the first entry.  C9_AsClaimed states this for   *)
(* replies whose entries all carry a payload, so that its violation does   *)
(* not rest on the indexing panic of C3: a later error-tagged entry fails  *)
(* the call.                                                               *)
(***************************************************************************)
EmptyResponseError == Err("empty JMAP response", NoPayload)

ConfigRead == \A v \in EnvVars : env[v] # {}

ConfigErrors ==
    { "JMAP_SESSION_URL is required", "JMAP_USERNAME is required",
      "JMAP_PASSWORD is required" }

ConnectErrors ==
    { "failed to fetch JMAP session", "JMAP session auth failed",
      "failed to parse JMAP session", "no primary mail account found",
      "account not in session" }

C10_ServesOnlyWithSession ==
    /\ pc \in { "serve_init", "serving" } => ConfigRead /\ client # {}
    /\ dispatched => ConfigRead /\ client # {} /\ pc \in { "serving", "exited" }
    /\ (\E t \in Tasks : tasks[t].pc # "idle") => pc = "serving"
    /\ ~ ConfigRead /\ pc # "start"
       => pc = "exited" /\ exit \in ConfigErrors /\ client = {} /\ ~ dispatched
    /\ client = {} /\ pc \notin { "start", "connecting" }
       => pc = "exited" /\ exit \in ConfigErrors \cup ConnectErrors /\ ~ dispatched
    /\ exit \in ConfigErrors \cup ConnectErrors
       => pc = "exited" /\ client = {} /\ ~ dispatched

C10_Witness ==
    /\ pc = "serving" /\ dispatched /\ ConfigRead /\ client # {}
    /\ \E t \in Tasks : tasks[t].pc = "await"

(***************************************************************************)
(* C11.  send resolves the drafts mailbox (step 1) before the identity     *)
(* (step 2): the first request of a send is the mailbox listing, the       *)
(* identity listing is its second, and for an account with neither a       *)
(* drafts mailbox nor an identity send fails with the no-drafts-mailbox    *)
(* error.                                                                  *)
(* The code does not satisfy this: send_email awaits get_identity_id       *)
(* (line 201) before get_drafts_mailbox_id (line 207), so Identity/get is  *)
(* sent first and such an account gets the no-identity error.              *)
(***************************************************************************)
\* a send invocation
Sending(t) == tasks[t].op = "send_email"

\* the names of the method calls of the request that is out
SentNames(t) ==
    [i \in 1..Len(tasks[t].request.methodCalls) |-> tasks[t].request.methodCalls[i].name]

\* the reply lists neither a mailbox nor an identity: one entry, an empty list
ListsNothing(reply) ==
    /\ reply.net = "ok"
    /\ Len(reply.entries) = 1
    /\ HasPayload(reply.entries[1]) /\ ~ ErrorTagged(reply.entries[1])
    /\ reply.entries[1][2].hasList /\ reply.entries[1][2].list = <<>>

C11_DraftsResolvedFirst ==
    \A t \in Tasks :
        Sending(t)
        => /\ tasks[t].pc = "await" /\ tasks[t].sent = 1
              => SentNames(t) = << "Mailbox/get" >>
           /\ tasks[t].pc = "await" /\ SentNames(t) = << "Identity/get" >>
              => tasks[t].sent = 2
           /\ tasks[t].pc = "done" /\ tasks[t].sent = 1 /\ ListsNothing(tasks[t].reply)
              => tasks[t].result = Err("no drafts mailbox found", NoPayload)

\* what the code does: the identity is resolved first
C11_IdentityResolvedFirst ==
    \A t \in Tasks :
        Sending(t)
        => /\ tasks[t].pc = "await" /\ tasks[t].sent = 1
              => SentNames(t) = << "Identity/get" >>
           /\ tasks[t].pc = "await" /\ SentNames(t) = << "Mailbox/get" >>
              => tasks[t].sent = 2
           /\ tasks[t].pc = "done" /\ tasks[t].sent = 1 /\ ListsNothing(tasks[t].reply)
              => tasks[t].result = Err("no identity found for this account", NoPayload)

(***************************************************************************)
(* C12.  The draft creation (Email/set creating "draft") and the           *)
(* submission (EmailSubmission/set) of a send travel in one POST, the      *)
(* draft creation first, the submission naming the draft by the creation   *)
(* reference "#draft"; no request carries one of the two without the       *)
(* other.                                                                  *)
(***************************************************************************)
\* the request that is out carries a call that changes state on the server
CarriesSet(t) ==
    \E i \in 1..Len(tasks[t].request.methodCalls) :
        tasks[t].request.methodCalls[i].name \in { "Email/set", "EmailSubmission/set" }

C12_DraftAndSubmissionInOnePost ==
    \A t \in Tasks :
        /\ CarriesSet(t)
           => /\ BatchAwaiting(t)
              /\ tasks[t].request.verb = "POST"
              /\ SentNames(t) = << "Email/set", "EmailSubmission/set" >>
              /\ "draft" \in DOMAIN tasks[t].request.methodCalls[1].args.create
              /\ tasks[t].request.methodCalls[2].args.create.send.emailId = "#draft"
              /\ tasks[t].request.methodCalls[1].id = "r0"
              /\ tasks[t].request.methodCalls[2].id = "r1"
        /\ BatchAwaiting(t) => CarriesSet(t)

C12_Witness ==
    \E t \in Tasks :
        /\ BatchAwaiting(t)
        /\ SentNames(t) = << "Email/set", "EmailSubmission/set" >>
        /\ tasks[t].request.methodCalls[2].args.create.send.emailId = "#draft"

(***************************************************************************)
(* C13.  There are no retries.  Every await of an invocation has exactly   *)
(* one POST out, and the invocation has sent one request per step it       *)
(* reached: one for list, search and fetch, at most three for send.  The   *)
(* first failed request or error-tagged response ends the invocation       *)
(* without a success and with no request out, with an error when the       *)
(* entries of the response are well formed; a later step of send is only   *)
(* reached over a reply that succeeded.                                    *)
(***************************************************************************)
\* the number of the request a step awaits
StepNumber(step) ==
    CASE step = "call" -> 1
      [] step = "identity" -> 1
      [] step = "mailbox" -> 2
      [] step = "batch" -> 3
      [] OTHER -> 0

\* the request failed, or the response holds an error-tagged entry
Failed(reply) == reply.net \notin { "ok", "none" } \/ HasErrorEntry(reply)

\* the request was answered by well-formed entries, none error-tagged
Succeeded(reply) ==
    /\ reply.net = "ok"
    /\ reply.entries # <<>>
    /\ WellFormed(reply)
    /\ ~ HasErrorEntry(reply)

CallsAnswered(t) == IF BatchAnswered(t) THEN 2 ELSE 1

C15_ResultsComplete ==
    \A t \in Tasks :
        /\ Answered(t) /\ call_multi(tasks[t].reply).kind = "ok"
           => Len(call_multi(tasks[t].reply).values) = CallsAnswered(t)
        /\ BatchAnswered(t) /\ tasks[t].result.kind = "ok"
           => /\ Len(tasks[t].reply.entries) = 2
              /\ \A i \in 1..2 : ~ ErrorTagged(tasks[t].reply.entries[i])
              /\ tasks[t].result.value = tasks[t].reply.entries[2][2]

\* the send part of C15 alone: no successful send over fewer than two entries
C15_SendNeedsTwoEntries ==
    \A t \in Tasks :
        BatchAnswered(t) /\ tasks[t].result.kind = "ok"
        => Len(tasks[t].reply.entries) >= 2

(***************************************************************************)
(* C16.  send creates nothing unless both lookups succeeded.  The request  *)
(* with Email/set and EmailSubmission/set is the third of a send, issued   *)
(* only after Identity/get gave an identity id and Mailbox/get gave the id *)
(* of a mailbox with role "drafts"; the draft's mailboxIds names exactly   *)
(* that mailbox and the submission's identityId is exactly that identity.  *)
(* A send that ends before its third request did not succeed (it returned  *)
(* an error when the response entries were well formed) and has no request *)
(* out.                                                                    *)
(***************************************************************************)
\* the payload a lookup reads: that of the first entry of the reply
LookupList(reply) ==
    IF Succeeded(reply) /\ reply.entries[1][2].hasList
    THEN reply.entries[1][2].list ELSE <<>>

\* the id of the first listed identity, if it has one
IdentityIds(reply) ==
    IF LookupList(reply) = <<>> THEN {} ELSE LookupList(reply)[1].id

\* the id of the first listed mailbox with role "drafts", if it has one
DraftsIds(reply) ==
    LET list == LookupList(reply)
    IN  UNION { list[i].id : i \in { j \in 1..Len(list) :
                    /\ list[j].role = { "drafts" }
                    /\ \A k \in 1..(j - 1) : list[k].role # { "drafts" } } }

\* what holds of invocation t in a state
C16_State(t) ==
    /\ CarriesSet(t)
       => /\ BatchAwaiting(t) /\ tasks[t].sent = 3
          /\ DraftsIds(tasks[t].reply) # {}
          /\ SentDraft(t).mailboxIds = DraftsIds(tasks[t].reply)
          /\ tasks[t].identity_id # {}
          /\ tasks[t].request.methodCalls[2].args.create.send.identityId
                \in tasks[t].identity_id
    /\ Sending(t) /\ tasks[t].pc = "await" /\ tasks[t].step = "mailbox"
       => /\ IdentityIds(tasks[t].reply) # {}
          /\ tasks[t].identity_id = IdentityIds(tasks[t].reply)
    /\ Sending(t) /\ tasks[t].pc = "done" /\ tasks[t].sent < 3
       => /\ tasks[t].result.kind # "ok"
          /\ WellFormed(tasks[t].reply) => tasks[t].result.kind = "err"
          /\ tasks[t].request = NoRequest

BuiltFromClient(t) ==
    tasks[t].pc = "await"
    => /\ client # {}
       /\ tasks[t].request.url = TheClient.api_url
       /\ tasks[t].request.auth = [username |-> TheClient.username,
                                   password |-> TheClient.password]
       /\ \A i \in 1..Len(tasks[t].request.methodCalls) :
              tasks[t].request.methodCalls[i].args.accountId = TheClient.account_id

\* what invocation t was given: its operation, arguments and replies so far
OwnInputs(t) ==
    << tasks[t].op, tasks[t].pc, tasks[t].step, tasks[t].params, tasks[t].sent,
       tasks[t].reply, tasks[t].identity_id >>

\* what invocation t has produced
OwnOutputs(t) == << tasks[t].request, tasks[t].result, tasks[t].outcome >>

C14_State ==
    \A t \in ConcTasks :
        /\ BuiltFromClient(t)
        /\ \A u \in ConcTasks : OwnInputs(t) = OwnInputs(u) => OwnOutputs(t) = OwnOutputs(u)

C14_NoInterference ==
    [][ /\ client # {} => client' = client
        /\ C14_State'
        /\ pc' = "serving"
           => \A t \in ConcTasks :
                  tasks'[t] # tasks[t]
                  => \A u \in ConcTasks \ { t } : tasks'[u] = tasks[u] ]_vars

\* a tool call and a send are suspended at once, the send between its requests
C14_Witness ==
    \E t, u \in ConcTasks :
        /\ t # u
        /\ tasks[t].pc = "await" /\ tasks[t].op \in RouterOps
        /\ tasks[u].pc = "await" /\ Sending(u) /\ tasks[u].sent = 2
        /\ client # {}

====
